---- MODULE Spec2Model ----
(***************************************************************************)
(* Model of the netmix egress-routing engine:                              *)
(*   netmix/core/connection_manager.py  ConnectionManager (health store    *)
(*                                      and health monitor)                *)
(*   netmix/agent/ai_predictor.py       AIPredictor (heuristic selector)   *)
(*   netmix/core/socks_proxy.py         SocksProxy, forward_data           *)
(*   netmix/ui/web_dashboard.py         background_data_emitter            *)
(*   src/socks_proxy.py, src/health_checker.py   the legacy proxy          *)
(*                                                                         *)
(* The proxy runs on one asyncio event loop: the code between two awaits   *)
(* that really suspend is one atomic step.  asyncio.Lock is never held     *)
(* across a suspending await, so acquiring it never suspends and the store *)
(* mutators run inside the step that calls them.  The web dashboard        *)
(* emitter is a separate OS thread and interleaves with every step.        *)
(* The supervisor section models the two __main__ blocks (netmix/main.py   *)
(* and src/socks_proxy.py): launch, background tasks, listener, shutdown.  *)
(***************************************************************************)
EXTENDS Integers, Sequences, FiniteSets, TLC

\* ---------------------------------------------------------------- bounds
NumConns == 2          \* client connections accepted in one run
MaxRemoteBytes == 1    \* payload bytes the remote sends on one stream
MaxRounds == 3         \* probe rounds of the health monitor that are counted
MaxCount == 1          \* successes / failures of a record in a drawn snapshot
MaxCalls == 2          \* direct calls of the selector in one run
MaxMutations == 3      \* direct calls of Health Store mutators in one run

\* ------------------------------------------------------- program constants
SOCKS_VERSION == 5
history_len == 2       \* ConnectionManager(history_len=...) of the run
MaxListLen == history_len + 1  \* cap on a history that is no longer a deque
SENTINEL == 9999
CHUNK == 4096

None == "None"
Conns == 1 .. NumConns

\* Interface enumerations handed to the engine (name order = dict order).
Enumerations == { <<"WiFi", "Eth">> }
\* The legacy proxy also starts with no interface at all ("Will use default").
LegacyEnumerations == { <<>>, <<"WiFi", "Eth">> }
\* local IPv4 of an interface, as the 4 bytes socket.inet_aton produces
LocalIP(name) == IF name = "WiFi" THEN <<10, 0, 0, 1>> ELSE <<10, 0, 0, 2>>
\* ephemeral local ports the OS may give an outbound socket bound to port 0
EphemeralPorts == { 50000 }
\* latencies a successful probe may measure (ms)
MeasuredLatencies == { 10, 100 }

Min(a, b) == IF a < b THEN a ELSE b
Range(s) == { s[i] : i \in 1 .. Len(s) }
Prefix(s, k) == SubSeq(s, 1, k)
Drop(s, k) == SubSeq(s, k + 1, Len(s))

RECURSIVE Sum(_)
Sum(s) == IF s = <<>> THEN 0 ELSE s[1] + Sum(Tail(s))

\* Byte streams a client may send: greeting, request, then payload.
ClientInputs ==
  { <<5, 1, 0,  5, 1, 0, 1,  93, 184, 216, 34,  0, 80,  7>>,   \* CONNECT IPv4 + 1 payload byte
    <<5, 1, 0,  5, 1, 0, 3,  2, 97, 98,  0, 80>>,             \* CONNECT domain "ab"
    <<5, 1, 0,  5, 1, 0, 4,  0, 0, 0, 0, 0, 0, 0, 0, 0, 0, 0, 0, 0, 0, 0, 1,  0, 80>>, \* IPv6
    <<5, 1, 0,  5, 2, 0, 1,  10, 0, 0, 9,  0, 80>>,           \* BIND
    <<5, 3, 0, 2, 1,  5, 3, 0, 1,  10, 0, 0, 9,  0, 80>>,     \* 3 methods, UDP ASSOCIATE
    <<5, 1, 2>>,                                              \* only method 0x02
    <<4, 1, 0>> }                                             \* SOCKS4 greeting

VARIABLES
  interfaces,    \* ConnectionManager.interfaces, as the sequence of names
  health_data,   \* ConnectionManager.health_data: name -> metrics record
  client,        \* one handle_client task per connection
  dials,         \* observation: completed outbound dial attempts per interface
  running,       \* ConnectionManager.running (legacy: HealthChecker.running)
  monitor,       \* the run_health_checks task (legacy: the HealthChecker.run task)
  csv,           \* the last row _log_to_csv appended, or None
  emitter,       \* the background_data_emitter thread of the web dashboard
  variant,       \* which program runs: "netmix" (netmix/) or "legacy" (src/)
  interface_latency,  \* legacy health_checker.interface_latency: name -> last latency
  connection_counts,  \* legacy health_checker.connection_counts: name -> count
  lock,          \* ConnectionManager.lock: the task inside a critical section
                 \* that spans more than one step, or None
  selector,      \* calls of AIPredictor.predict_best_interface made directly
  supervisor,    \* the __main__ block and main(): launch, tasks, listener, exit
  zt_api,        \* ConnectionManager.zt_api: the ZeroTier API client, or None
  last_call      \* the last Health Store mutator called directly

vars == <<interfaces, health_data, client, dials, running, monitor, csv, emitter,
          variant, interface_latency, connection_counts, lock, selector,
          supervisor, zt_api, last_call>>
proxy_vars == <<client, dials>>
monitor_vars == <<running, monitor, csv>>
legacy_vars == <<variant, interface_latency, connection_counts>>

\* ------------------------------------------------------------ Health Store
\* ConnectionManager.__init__: one record per enumerated interface.
\* latencies is a deque(maxlen=history_len); `deque` tells whether the
\* object stored under 'latencies' is still that deque or a plain list.
NewMetrics ==
  [ latencies |-> <<>>, deque |-> TRUE, successes |-> 0, failures |-> 0,
    active_conns |-> 0, bytes_sent |-> 0, bytes_received |-> 0 ]

\* Variant in which a new sample also clears the failure count, used to
\* test the claims below.
Append_latency_ResetsFailures(rec, latency) ==
  [rec EXCEPT !.latencies = IF rec.deque /\ Len(@) >= history_len
                            THEN Append(Tail(@), latency) ELSE Append(@, latency),
              !.failures = 0]

\* deque.append with maxlen evicts the oldest; list.append never evicts.
Append_latency(rec, latency) ==
  IF rec.deque /\ Len(rec.latencies) >= history_len
  THEN [rec EXCEPT !.latencies = Append(Tail(@), latency)]
  ELSE [rec EXCEPT !.latencies = Append(@, latency)]

record_success(hd, name) ==
  IF name \in DOMAIN hd THEN [hd EXCEPT ![name].successes = @ + 1] ELSE hd

record_failure(hd, name) ==
  IF name \in DOMAIN hd THEN [hd EXCEPT ![name].failures = @ + 1] ELSE hd

record_bytes_sent(hd, name, n) ==
  IF name \in DOMAIN hd THEN [hd EXCEPT ![name].bytes_sent = @ + n] ELSE hd

record_bytes_received(hd, name, n) ==
  IF name \in DOMAIN hd THEN [hd EXCEPT ![name].bytes_received = @ + n] ELSE hd

increment_active_conn(hd, name) ==
  IF name \in DOMAIN hd THEN [hd EXCEPT ![name].active_conns = @ + 1] ELSE hd

\* Variant without the membership test (a defaultdict-like store), used to
\* test the claims below.
decrement_active_conn_Unguarded(hd, name) ==
  [n \in DOMAIN hd \cup {name} |->
     IF n \in DOMAIN hd
     THEN IF n = name THEN [hd[n] EXCEPT !.active_conns = @ - 1] ELSE hd[n]
     ELSE [latencies |-> <<>>, deque |-> TRUE, successes |-> 0, failures |-> 0,
           active_conns |-> -1, bytes_sent |-> 0, bytes_received |-> 0]]

decrement_active_conn(hd, name) ==
  IF name \in DOMAIN hd THEN [hd EXCEPT ![name].active_conns = @ - 1] ELSE hd

\* get_health_data returns self.health_data itself: the caller's view is the
\* store's own dict, and dict(view) copies only the outer level, so every
\* inner record of a "working copy" is the store's record.
get_health_data(hd) == hd

\* -------------------------------------------------------------- Selector
\* Heuristic score (avg_latency * 0.8) - (success_rate * 20), kept as the
\* exact fraction ScoreNum / ScoreDen with ScoreDen > 0.
\* Variant of the latency mean used to test the claims below.
AvgNum_EmptyIsZero(d) == Sum(d.latencies)

AvgNum(d) == IF d.latencies = <<>> THEN SENTINEL ELSE Sum(d.latencies)
AvgDen(d) == IF d.latencies = <<>> THEN 1 ELSE Len(d.latencies)
total_attempts(d) == d.successes + d.failures
RateNum(d) == IF total_attempts(d) > 0 THEN d.successes ELSE 1
RateDen(d) == IF total_attempts(d) > 0 THEN total_attempts(d) ELSE 1
ScoreNum(d) == 4 * AvgNum(d) * RateDen(d) - 100 * RateNum(d) * AvgDen(d)
ScoreDen(d) == 5 * AvgDen(d) * RateDen(d)
\* Variant of the comparison used to test the claims below.
ScoreLess_Reversed(a, b) == ScoreNum(b) * ScoreDen(a) < ScoreNum(a) * ScoreDen(b)

ScoreLess(a, b) == ScoreNum(a) * ScoreDen(b) < ScoreNum(b) * ScoreDen(a)

\* The for loop of the heuristic: strict "<" against the best so far,
\* names visited in dict order, best_score starting at +infinity.
\* Variant of the loop (a "<=" comparison) used to test the claims below.
RECURSIVE HeuristicScan_LastWins(_, _, _, _)
HeuristicScan_LastWins(data, names, i, best) ==
  IF i > Len(names) THEN best
  ELSE HeuristicScan_LastWins(data, names, i + 1,
         IF best = None \/ ~ScoreLess(data[best], data[names[i]])
         THEN names[i] ELSE best)

RECURSIVE HeuristicScan(_, _, _, _)
HeuristicScan(data, names, i, best) ==
  IF i > Len(names) THEN best
  ELSE HeuristicScan(data, names, i + 1,
         IF best = None \/ ScoreLess(data[names[i]], data[best])
         THEN names[i] ELSE best)

\* Variant whose answer depends on how often it was called, used to test the
\* claims below.
predict_best_interface_Stateful(data, names) ==
  IF names = <<>> THEN None
  ELSE IF selector.calls % 2 = 1 THEN names[Len(names)]
  ELSE HeuristicScan(data, names, 1, None)

predict_best_interface(data, names) ==
  IF names = <<>> THEN None ELSE HeuristicScan(data, names, 1, None)

\* ------------------------------------------------------------ SOCKS5 server
HOST_UNREACHABLE == <<5, 4, 0, 1, 0, 0, 0, 0, 0, 0>>
METHOD_REPLY == <<SOCKS_VERSION, 0>>
to_bytes2(n) == << (n \div 256) % 256, n % 256 >>
from_bytes(b) == IF b = <<>> THEN 0
                 ELSE IF Len(b) = 1 THEN b[1] ELSE b[1] * 256 + b[2]
SuccessReply(ip, port) == <<5, 0, 0, 1>> \o ip \o to_bytes2(port)

\* dest_addr before the address is decoded (no byte sequence).
NoAddr == <<-1>>

\* The run_health_checks task before its first step.  host_to_check is the
\* task's local variable.  Observations: round is the latencies
\* check_latency returned in the current round, before the counters of the
\* probed interface when its probe began, outcome how the probe just
\* completed ended, targets the gateway lookup made and the host probed for
\* each interface of the current round, stop_called whether the stop signal
\* has been given.  In the legacy program the record is the
\* HealthChecker.run task.
NewMonitor == [pc |-> "created", idx |-> 0, failed_checks |-> 0, rounds |-> 0,
               sleep |-> 0, round |-> <<>>, before |-> <<>>, outcome |-> None,
               host_to_check |-> None, targets |-> <<>>, stop_called |-> FALSE]

\* The supervisor once its background tasks run and the listener accepts:
\* the state the engine is in while it serves clients.
Serving == [pc |-> "serving", manager_task |-> "running", proxy_task |-> "running",
            listening |-> TRUE, shutdown |-> FALSE, exit_code |-> None]
\* The supervisor when the interpreter enters the __main__ block.
Launching == [pc |-> "launch", manager_task |-> "none", proxy_task |-> "none",
              listening |-> FALSE, shutdown |-> FALSE, exit_code |-> None]

\* No Health Store mutator has been called directly.
NoMutation == [calls |-> 0, op |-> None, name |-> None]

\* No direct call of the selector has been made.
NoCall == [calls |-> 0, snapshot |-> <<>>, result |-> None, repeat |-> FALSE]

NewClient ==
  [ pc |-> "NEW", inbuf |-> <<>>, segmented |-> FALSE, out |-> <<>>,
    nmethods |-> 0, cmd |-> 0, atyp |-> 0, domain_len |-> 0,
    dest_addr |-> NoAddr, dest_port |-> 0,
    attempt |-> 0, iface_name |-> None, iface_name_used |-> None,
    remote_writer |-> None, client_writer |-> "open",
    up |-> "idle", down |-> "idle",   \* the two forward_data tasks
    sorted_interfaces |-> <<>>,       \* legacy: the list iterated by the dial loop
    tried |-> <<>>,                   \* observation: interfaces dialed, in order
    sent |-> <<>>,                    \* observation: the byte stream the client sent
    latency_read |-> <<>>,            \* observation: legacy interface_latency when sorted
    to_remote |-> 0, to_client |-> 0, \* observation: payload bytes delivered
    from_remote |-> 0 ]               \* observation: payload bytes read from the remote

\* StreamReader.read(n): b'' for n = 0 or at EOF, else at least one and at
\* most n bytes: all n when the bytes arrived together, any shorter count
\* when the client's bytes arrive in pieces.
ReadSizes(n, rec) ==
  IF n = 0 \/ rec.inbuf = <<>> THEN {0}
  ELSE IF rec.segmented THEN 1 .. Min(n, Len(rec.inbuf))
  ELSE { Min(n, Len(rec.inbuf)) }

\* The finally block of handle_client, run by every path out of the handler.
Finally(rec) ==
  [rec EXCEPT !.pc = "CLOSED",
              !.remote_writer = IF @ = None THEN None ELSE "closed",
              !.client_writer = "closed"]
\* Variants of the finally block's gauge update, used to test the claims below.
FinallyStore_NoDecrement(hd, rec) == hd
FinallyStore_ByPredicted(hd, rec) ==
  IF variant = "netmix" /\ rec.iface_name # None
  THEN decrement_active_conn(hd, rec.iface_name)
  ELSE hd

FinallyStore(hd, rec) ==
  IF variant = "netmix" /\ rec.iface_name_used # None
  THEN decrement_active_conn(hd, rec.iface_name_used)
  ELSE hd

Init ==
  /\ interfaces \in Enumerations
  /\ health_data = [n \in Range(interfaces) |-> NewMetrics]
  /\ client = [c \in Conns |-> NewClient]
  /\ dials = [n \in Range(interfaces) |-> 0]
  /\ running = FALSE
  /\ monitor = NewMonitor
  /\ csv = None
  /\ emitter = [pc |-> "off", idx |-> 0, copy |-> <<>>]
  /\ lock = None
  /\ selector = NoCall
  /\ supervisor = Serving
  /\ zt_api = None
  /\ last_call = NoMutation
  /\ variant = "netmix"
  /\ interface_latency = <<>>
  /\ connection_counts = <<>>

\* The event loop runs one task at a time: no task takes a step while the
\* monitor task is blocked in its file write or while a handler not in
\* running_tasks is between two statements of a step.
LoopFree(running_tasks) ==
  /\ lock = None
  /\ \A d \in Conns : client[d].pc = "REPLYING" => d \in running_tasks

\* asyncio.start_server accepts a connection and starts handle_client.
AcceptFrom(c, Inputs, Segmentations) ==
  /\ LoopFree({})
  /\ supervisor.listening
  /\ client[c].pc = "NEW"
  /\ \E input \in Inputs, seg \in Segmentations :
       client' = [client EXCEPT ![c].pc = "GREETING", ![c].inbuf = input,
                                ![c].segmented = seg, ![c].sent = input]
  /\ UNCHANGED <<interfaces, zt_api, supervisor, last_call, lock, selector, health_data, dials, monitor_vars, emitter, legacy_vars>>

Accept(c) == AcceptFrom(c, ClientInputs, BOOLEAN)

\* Variant in which the exception of one handler ends every handler, used to
\* test the claims below.
Leave_StopsAll(c, rec) ==
  /\ client' = [d \in Conns |->
                  IF d = c THEN Finally(rec)
                  ELSE IF client[d].pc \in {"NEW", "CLOSED", "CRASHED"} THEN client[d]
                  ELSE Finally(client[d])]
  /\ health_data' = FinallyStore(health_data, rec)

\* An exception (or the early return) inside handle_client: the finally block
\* runs in the same step, since decrement_active_conn never suspends.
Leave(c, rec) ==
  /\ client' = [client EXCEPT ![c] = Finally(rec)]
  /\ health_data' = FinallyStore(health_data, rec)

\* header = await client_reader.read(2); version check; nmethods = header[1]
ReadGreeting(c) ==
  /\ client[c].pc = "GREETING"
  /\ \E k \in ReadSizes(2, client[c]) :
       LET header == Prefix(client[c].inbuf, k)
           rec == [client[c] EXCEPT !.inbuf = Drop(@, k)]
       IN IF header = <<>> \/ header[1] # SOCKS_VERSION \/ Len(header) < 2
          THEN Leave(c, rec)   \* ConnectionAbortedError, or IndexError on header[1]
          ELSE /\ client' = [client EXCEPT ![c] =
                               [rec EXCEPT !.pc = "METHODS", !.nmethods = header[2]]]
               /\ UNCHANGED health_data
  /\ UNCHANGED <<interfaces, zt_api, supervisor, last_call, lock, selector, dials, monitor_vars, emitter, legacy_vars>>

\* Variant of ReadMethods that goes on to the request without writing the
\* method-selection reply, used to test the claims below.
ReadMethods_NoReply(c) ==
  /\ client[c].pc = "METHODS"
  /\ \E k \in ReadSizes(client[c].nmethods, client[c]) :
       LET methods == Prefix(client[c].inbuf, k)
           rec == [client[c] EXCEPT !.inbuf = Drop(@, k)]
       IN IF 0 \notin Range(methods)
          THEN Leave(c, rec)
          ELSE /\ client' = [client EXCEPT ![c] = [rec EXCEPT !.pc = "REQUEST"]]
               /\ UNCHANGED health_data
  /\ UNCHANGED <<interfaces, zt_api, supervisor, last_call, lock, selector, dials, monitor_vars, emitter, legacy_vars>>

\* methods = await client_reader.read(nmethods); require 0x00; write 05 00; drain.
\* drain_ok = FALSE: the client is gone and drain raises ConnectionResetError.
ReadMethods(c) ==
  /\ client[c].pc = "METHODS"
  /\ \E k \in ReadSizes(client[c].nmethods, client[c]), drain_ok \in BOOLEAN :
       LET methods == Prefix(client[c].inbuf, k)
           rec == [client[c] EXCEPT !.inbuf = Drop(@, k)]
       IN IF 0 \notin Range(methods)
          THEN /\ drain_ok
               /\ Leave(c, rec)
          ELSE LET replied == [rec EXCEPT !.out = Append(@, METHOD_REPLY)]
               IN IF drain_ok
                  THEN /\ client' = [client EXCEPT ![c] = [replied EXCEPT !.pc = "REQUEST"]]
                       /\ UNCHANGED health_data
                  ELSE Leave(c, replied)
  /\ UNCHANGED <<interfaces, zt_api, supervisor, last_call, lock, selector, dials, monitor_vars, emitter, legacy_vars>>

\* request_header = await client_reader.read(4); _ver, cmd, _rsv, atyp = ...
ReadRequest(c) ==
  /\ client[c].pc = "REQUEST"
  /\ \E k \in ReadSizes(4, client[c]) :
       LET request_header == Prefix(client[c].inbuf, k)
           rec == [client[c] EXCEPT !.inbuf = Drop(@, k)]
       IN IF Len(request_header) # 4            \* ValueError: unpacking
          THEN Leave(c, rec)
          ELSE LET cmd == request_header[2]
                   atyp == request_header[4]
                   unpacked == [rec EXCEPT !.cmd = cmd, !.atyp = atyp]
               IN IF cmd # 1 \/ atyp \notin {1, 3}
                  THEN Leave(c, unpacked)      \* ConnectionAbortedError
                  ELSE /\ client' = [client EXCEPT ![c] =
                            [unpacked EXCEPT
                               !.pc = IF atyp = 1 THEN "ADDR_IPV4" ELSE "ADDR_LEN"]]
                       /\ UNCHANGED health_data
  /\ UNCHANGED <<interfaces, zt_api, supervisor, last_call, lock, selector, dials, monitor_vars, emitter, legacy_vars>>

\* dest_addr = socket.inet_ntoa(await client_reader.read(4))
ReadIPv4(c) ==
  /\ client[c].pc = "ADDR_IPV4"
  /\ \E k \in ReadSizes(4, client[c]) :
       LET packed == Prefix(client[c].inbuf, k)
           rec == [client[c] EXCEPT !.inbuf = Drop(@, k)]
       IN IF Len(packed) # 4                    \* OSError: packed IP wrong length
          THEN Leave(c, rec)
          ELSE /\ client' = [client EXCEPT ![c] =
                    [rec EXCEPT !.dest_addr = packed, !.pc = "PORT"]]
               /\ UNCHANGED health_data
  /\ UNCHANGED <<interfaces, zt_api, supervisor, last_call, lock, selector, dials, monitor_vars, emitter, legacy_vars>>

\* domain_len = (await client_reader.read(1))[0]
ReadDomainLen(c) ==
  /\ client[c].pc = "ADDR_LEN"
  /\ \E k \in ReadSizes(1, client[c]) :
       LET b == Prefix(client[c].inbuf, k)
           rec == [client[c] EXCEPT !.inbuf = Drop(@, k)]
       IN IF b = <<>>                           \* IndexError
          THEN Leave(c, rec)
          ELSE /\ client' = [client EXCEPT ![c] =
                    [rec EXCEPT !.domain_len = b[1], !.pc = "ADDR_DOMAIN"]]
               /\ UNCHANGED health_data
  /\ UNCHANGED <<interfaces, zt_api, supervisor, last_call, lock, selector, dials, monitor_vars, emitter, legacy_vars>>

\* dest_addr = (await client_reader.read(domain_len)).decode('utf-8')
ReadDomain(c) ==
  /\ client[c].pc = "ADDR_DOMAIN"
  /\ \E k \in ReadSizes(client[c].domain_len, client[c]) :
       client' = [client EXCEPT ![c].inbuf = Drop(@, k),
                                ![c].dest_addr = Prefix(client[c].inbuf, k),
                                ![c].pc = "PORT"]
  /\ UNCHANGED <<interfaces, zt_api, supervisor, last_call, lock, selector, health_data, dials, monitor_vars, emitter, legacy_vars>>

\* attempt_data[iface_name]['failures'] += 1, where attempt_data =
\* dict(get_health_data()): the inner record is the store's own record.
attempt_data_failure(hd, name) == [hd EXCEPT ![name].failures = @ + 1]

\* Variants of the loop head, used to test the claims below: one more
\* iteration than there are interfaces; reply code 0x01 instead of 0x04.
NextAttempt_OffByOne(c, rec, hd, attempt) ==
  LET iface_name == predict_best_interface(get_health_data(hd), interfaces)
  IN IF attempt > Len(interfaces) + 1 \/ iface_name = None
     THEN LET replied == [rec EXCEPT !.out = Append(@, HOST_UNREACHABLE),
                                     !.iface_name = None]
          IN /\ client' = [client EXCEPT ![c] = Finally(replied)]
             /\ health_data' = FinallyStore(hd, replied)
     ELSE /\ client' = [client EXCEPT ![c] =
               [rec EXCEPT !.pc = "DIALING", !.attempt = attempt,
                           !.iface_name = iface_name]]
          /\ health_data' = hd

NextAttempt_WrongReply(c, rec, hd, attempt) ==
  LET iface_name == predict_best_interface(get_health_data(hd), interfaces)
  IN IF attempt > Len(interfaces) \/ iface_name = None
     THEN LET replied == [rec EXCEPT !.out = Append(@, <<5, 1, 0, 1, 0, 0, 0, 0, 0, 0>>),
                                     !.iface_name = None]
          IN /\ client' = [client EXCEPT ![c] = Finally(replied)]
             /\ health_data' = FinallyStore(hd, replied)
     ELSE /\ client' = [client EXCEPT ![c] =
               [rec EXCEPT !.pc = "DIALING", !.attempt = attempt,
                           !.iface_name = iface_name]]
          /\ health_data' = hd

\* One iteration head of the loop in connect_to_destination, run from
\* iteration number `attempt`: either the next dial is started (the handler
\* suspends in open_connection) or the loop is over and handle_client writes
\* the host-unreachable reply and returns.
NextAttempt(c, rec, hd, attempt) ==
  LET iface_name == predict_best_interface(get_health_data(hd), interfaces)
  IN IF attempt > Len(interfaces) \/ iface_name = None
     THEN LET replied == [rec EXCEPT !.out = Append(@, HOST_UNREACHABLE),
                                     !.iface_name = None]
          IN /\ client' = [client EXCEPT ![c] = Finally(replied)]
             /\ health_data' = FinallyStore(hd, replied)
     ELSE /\ client' = [client EXCEPT ![c] =
               [rec EXCEPT !.pc = "DIALING", !.attempt = attempt,
                           !.iface_name = iface_name]]
          /\ health_data' = hd

\* dest_port = int.from_bytes(await client_reader.read(2), 'big'), then
\* connect_to_destination up to its first open_connection.
ReadPort(c) ==
  /\ variant = "netmix"
  /\ client[c].pc = "PORT"
  /\ \E k \in ReadSizes(2, client[c]) :
       LET rec == [client[c] EXCEPT !.inbuf = Drop(@, k),
                                    !.dest_port = from_bytes(Prefix(client[c].inbuf, k))]
       IN NextAttempt(c, rec, health_data, 1)
  /\ UNCHANGED <<interfaces, zt_api, supervisor, last_call, lock, selector, dials, monitor_vars, emitter, legacy_vars>>

\* Variant that counts the new stream on the first interface, used to test
\* the claims below.
DialSuccess_CountsFirst(c) ==
  /\ variant = "netmix"
  /\ client[c].pc = "DIALING"
  /\ LET name == client[c].iface_name
         hd1 == record_success(health_data, name)
         hd2 == increment_active_conn(hd1, interfaces[1])
     IN /\ client' = [client EXCEPT ![c].pc = "REPLYING",
                                    ![c].iface_name_used = name,
                                    ![c].remote_writer = "open",
                                    ![c].tried = Append(@, name)]
        /\ health_data' = hd2
  /\ dials' = [dials EXCEPT ![client[c].iface_name] = @ + 1]
  /\ UNCHANGED <<interfaces, zt_api, supervisor, last_call, lock, selector, monitor_vars, emitter, legacy_vars>>

\* open_connection succeeded: record_success, return to handle_client,
\* increment_active_conn.  The handler has not suspended: it goes on to build
\* and write the success reply, and only another thread can see the store in
\* between.
DialSuccess(c) ==
  /\ variant = "netmix"
  /\ client[c].pc = "DIALING"
  /\ LET name == client[c].iface_name
         hd1 == record_success(health_data, name)
         hd2 == increment_active_conn(hd1, name)
     IN /\ client' = [client EXCEPT ![c].pc = "REPLYING",
                                    ![c].iface_name_used = name,
                                    ![c].remote_writer = "open",
                                    ![c].tried = Append(@, name)]
        /\ health_data' = hd2
  /\ dials' = [dials EXCEPT ![client[c].iface_name] = @ + 1]
  /\ UNCHANGED <<interfaces, zt_api, supervisor, last_call, lock, selector, monitor_vars, emitter, legacy_vars>>

\* The success reply is built from the outbound socket's local address and
\* written; drain returns and gather starts the pumps, or drain raises and
\* the finally block runs.
SendReply(c) ==
  /\ client[c].pc = "REPLYING"
  /\ \E port \in EphemeralPorts, drain_ok \in BOOLEAN :
       LET name == client[c].iface_name_used
           rec == [client[c] EXCEPT !.out = Append(@, SuccessReply(LocalIP(name), port))]
       IN IF drain_ok
          THEN /\ client' = [client EXCEPT ![c] =
                    [rec EXCEPT !.pc = "RELAY", !.up = "run", !.down = "run"]]
               /\ UNCHANGED health_data
          ELSE Leave(c, rec)
  /\ UNCHANGED <<interfaces, zt_api, supervisor, last_call, lock, selector, dials, monitor_vars,
                 emitter, legacy_vars>>

\* Variant that reports every failed dial to the client, used to test the
\* claims below.
DialFailure_Replies(c) ==
  /\ variant = "netmix"
  /\ client[c].pc = "DIALING"
  /\ LET name == client[c].iface_name
         hd1 == record_failure(health_data, name)
         hd2 == attempt_data_failure(hd1, name)
         rec == [client[c] EXCEPT !.tried = Append(@, name),
                                  !.out = Append(@, HOST_UNREACHABLE)]
     IN NextAttempt(c, rec, hd2, client[c].attempt + 1)
  /\ dials' = [dials EXCEPT ![client[c].iface_name] = @ + 1]
  /\ UNCHANGED <<interfaces, zt_api, supervisor, last_call, lock, selector, monitor_vars, emitter, legacy_vars>>

\* open_connection raised OSError or timed out after 5 s: record_failure,
\* the working-copy increment, and the next loop iteration.
DialFailure(c) ==
  /\ variant = "netmix"
  /\ client[c].pc = "DIALING"
  /\ LET name == client[c].iface_name
         hd1 == record_failure(health_data, name)
         hd2 == attempt_data_failure(hd1, name)
         rec == [client[c] EXCEPT !.tried = Append(@, name)]
     IN NextAttempt(c, rec, hd2, client[c].attempt + 1)
  /\ dials' = [dials EXCEPT ![client[c].iface_name] = @ + 1]
  /\ UNCHANGED <<interfaces, zt_api, supervisor, last_call, lock, selector, monitor_vars, emitter, legacy_vars>>

\* forward_data(client_reader, remote_writer, "client->remote"): one chunk
\* read, counted, written and drained; a failed drain ends the pump.
PumpUp(c) ==
  /\ client[c].pc = "RELAY" /\ client[c].up = "run"
  /\ client[c].inbuf # <<>>
  /\ \E k \in 1 .. Min(CHUNK, Len(client[c].inbuf)), drain_ok \in BOOLEAN :
       /\ health_data' = IF variant = "netmix"
                          THEN record_bytes_sent(health_data, client[c].iface_name_used, k)
                          ELSE health_data
       /\ client' = [client EXCEPT
            ![c].inbuf = Drop(@, k),
            ![c].to_remote = IF drain_ok THEN @ + k ELSE @,
            ![c].up = IF drain_ok THEN "run" ELSE "done",
            ![c].remote_writer = IF drain_ok THEN @ ELSE "closed"]
  /\ UNCHANGED <<interfaces, zt_api, supervisor, last_call, lock, selector, dials, monitor_vars, emitter, legacy_vars>>

\* forward_data(remote_reader, client_writer, "remote->client")
PumpDown(c) ==
  /\ client[c].pc = "RELAY" /\ client[c].down = "run"
  /\ \E k \in 1 .. Min(CHUNK, MaxRemoteBytes - client[c].from_remote), drain_ok \in BOOLEAN :
       /\ health_data' = IF variant = "netmix"
                          THEN record_bytes_received(health_data, client[c].iface_name_used, k)
                          ELSE health_data
       /\ client' = [client EXCEPT
            ![c].from_remote = @ + k,
            ![c].to_client = IF drain_ok THEN @ + k ELSE @,
            ![c].down = IF drain_ok THEN "run" ELSE "done",
            ![c].client_writer = IF drain_ok THEN @ ELSE "closed"]
  /\ UNCHANGED <<interfaces, zt_api, supervisor, last_call, lock, selector, dials, monitor_vars, emitter, legacy_vars>>

\* read returned b'' (peer closed, or the other pump closed the transport)
\* or raised: the pump leaves its loop and closes its writer.
PumpUpEnd(c) ==
  /\ client[c].pc = "RELAY" /\ client[c].up = "run"
  /\ client' = [client EXCEPT ![c].up = "done", ![c].remote_writer = "closed"]
  /\ UNCHANGED <<interfaces, zt_api, supervisor, last_call, lock, selector, health_data, dials, monitor_vars, emitter, legacy_vars>>

PumpDownEnd(c) ==
  /\ client[c].pc = "RELAY" /\ client[c].down = "run"
  /\ client' = [client EXCEPT ![c].down = "done", ![c].client_writer = "closed"]
  /\ UNCHANGED <<interfaces, zt_api, supervisor, last_call, lock, selector, health_data, dials, monitor_vars, emitter, legacy_vars>>

\* Variant that leaves RELAY as soon as one pump is done, used to test the
\* claims below.
RelayDone_AfterFirst(c) ==
  /\ variant = "netmix"
  /\ client[c].pc = "RELAY" /\ (client[c].up = "done" \/ client[c].down = "done")
  /\ Leave(c, client[c])
  /\ UNCHANGED <<interfaces, zt_api, supervisor, last_call, lock, selector, dials, monitor_vars, emitter, legacy_vars>>

\* asyncio.gather returned: both pumps are done; the finally block runs.
RelayDone(c) ==
  /\ variant = "netmix"
  /\ client[c].pc = "RELAY" /\ client[c].up = "done" /\ client[c].down = "done"
  /\ Leave(c, client[c])
  /\ UNCHANGED <<interfaces, zt_api, supervisor, last_call, lock, selector, dials, monitor_vars, emitter, legacy_vars>>

\* The handler task is cancelled while suspended in an await (loop teardown):
\* CancelledError passes the except clauses and the finally block runs; in
\* RELAY gather cancels both pumps, which close their writers.
AwaitStates == {"GREETING", "METHODS", "REQUEST", "ADDR_IPV4", "ADDR_LEN",
                "ADDR_DOMAIN", "PORT", "DIALING", "RELAY"}
Cancel(c) ==
  /\ variant = "netmix"
  /\ client[c].pc \in AwaitStates
  /\ Leave(c, [client[c] EXCEPT !.up = IF @ = "idle" THEN @ ELSE "done",
                                !.down = IF @ = "idle" THEN @ ELSE "done"])
  /\ UNCHANGED <<interfaces, zt_api, supervisor, last_call, lock, selector, dials, monitor_vars, emitter, legacy_vars>>

\* ------------------------------------------------------------ legacy proxy
\* src/socks_proxy.py: the same handshake and pumps (without byte counts);
\* the dial loop walks the interfaces sorted by last known latency, and the
\* per-interface gauge is the module-level dict connection_counts.

\* sorted(interface_latency.items(), key=lambda item: item[1]): a stable
\* sort of the names, in dict order, by latency.
RECURSIVE InsertByLatency(_, _, _)
InsertByLatency(sorted, name, lat) ==
  IF sorted = <<>> THEN <<name>>
  ELSE IF lat[sorted[1]] <= lat[name]
       THEN <<sorted[1]>> \o InsertByLatency(Tail(sorted), name, lat)
       ELSE <<name>> \o sorted

\* Variant that walks the interfaces in dict order, used to test the claims
\* below.
SortByLatency_DictOrder(names, i, acc, lat) == names

RECURSIVE SortByLatency(_, _, _, _)
SortByLatency(names, i, acc, lat) ==
  IF i > Len(names) THEN acc
  ELSE SortByLatency(names, i + 1, InsertByLatency(acc, names[i], lat), lat)

\* The finally block of the legacy handle_client.  The decrement indexes
\* connection_counts directly: a name that is no key raises KeyError out of
\* the finally block, before either writer is closed.
LegacyLeave(c, rec) ==
  IF rec.iface_name_used # None /\ rec.iface_name_used \notin DOMAIN connection_counts
  THEN /\ client' = [client EXCEPT ![c] = [rec EXCEPT !.pc = "CRASHED"]]
       /\ UNCHANGED connection_counts
  ELSE /\ client' = [client EXCEPT ![c] = Finally(rec)]
       /\ connection_counts' =
            IF rec.iface_name_used # None
            THEN [connection_counts EXCEPT ![rec.iface_name_used] = @ - 1]
            ELSE connection_counts

\* The for loop of connect_using_best_interface from position i of
\* sorted_interfaces: names without a local IP are skipped, the next dial is
\* started, or the loop is over and the host-unreachable reply is written.
RECURSIVE LegacyNextDial(_, _, _)
LegacyNextDial(c, rec, i) ==
  IF i > Len(rec.sorted_interfaces)
  THEN LegacyLeave(c, [rec EXCEPT !.out = Append(@, HOST_UNREACHABLE), !.iface_name = None])
  ELSE IF rec.sorted_interfaces[i] \notin Range(interfaces)
       THEN LegacyNextDial(c, rec, i + 1)
       ELSE /\ client' = [client EXCEPT ![c] =
                 [rec EXCEPT !.pc = "DIALING", !.attempt = i,
                             !.iface_name = rec.sorted_interfaces[i]]]
            /\ UNCHANGED connection_counts

\* dest_port read, then connect_using_best_interface up to its first await.
LegacyReadPort(c) ==
  /\ variant = "legacy"
  /\ client[c].pc = "PORT"
  /\ \E k \in ReadSizes(2, client[c]) :
       LET rec == [client[c] EXCEPT !.inbuf = Drop(@, k),
                                    !.dest_port = from_bytes(Prefix(client[c].inbuf, k))]
       IN IF interfaces = <<>>
          THEN /\ client' = [client EXCEPT ![c] =
                    [rec EXCEPT !.pc = "DIALING", !.iface_name = "default"]]
               /\ UNCHANGED connection_counts
          ELSE LegacyNextDial(c,
                 [rec EXCEPT !.sorted_interfaces =
                    SortByLatency(interfaces, 1, <<>>, interface_latency),
                             !.latency_read = interface_latency], 1)
  /\ UNCHANGED <<interfaces, zt_api, supervisor, last_call, lock, selector, health_data, dials, monitor_vars, emitter, variant,
                 interface_latency>>

\* open_connection succeeded: the counter is incremented (KeyError for a name
\* that is no key, caught by "except Exception"), the reply written, drained.
LegacyDialSuccess(c) ==
  /\ variant = "legacy"
  /\ client[c].pc = "DIALING"
  /\ \E port \in EphemeralPorts, drain_ok \in BOOLEAN :
       LET name == client[c].iface_name
           rec == [client[c] EXCEPT !.iface_name_used = name,
                                    !.remote_writer = "open",
                                    !.tried = Append(@, name)]
           replied == [rec EXCEPT !.out = Append(@, SuccessReply(LocalIP(name), port))]
       IN IF name \notin DOMAIN connection_counts
          THEN drain_ok /\ LegacyLeave(c, rec)
          ELSE IF drain_ok
               THEN /\ client' = [client EXCEPT ![c] =
                         [replied EXCEPT !.pc = "RELAY", !.up = "run", !.down = "run"]]
                    /\ connection_counts' = [connection_counts EXCEPT ![name] = @ + 1]
               ELSE /\ client' = [client EXCEPT ![c] = Finally(replied)]
                    /\ UNCHANGED connection_counts
  /\ dials' = IF client[c].iface_name \in DOMAIN dials
              THEN [dials EXCEPT ![client[c].iface_name] = @ + 1] ELSE dials
  /\ UNCHANGED <<interfaces, zt_api, supervisor, last_call, lock, selector, health_data, monitor_vars, emitter, variant, interface_latency>>

\* open_connection failed: the default dial gives up; a dial via an
\* interface marks it 9999 and goes on with the next one.
LegacyDialFailure(c) ==
  /\ variant = "legacy"
  /\ client[c].pc = "DIALING"
  /\ LET name == client[c].iface_name
         rec == [client[c] EXCEPT !.tried = Append(@, name)]
     IN IF interfaces = <<>>
        THEN /\ LegacyLeave(c, [rec EXCEPT !.out = Append(@, HOST_UNREACHABLE),
                                           !.iface_name = None])
             /\ UNCHANGED interface_latency
        ELSE /\ interface_latency' = [interface_latency EXCEPT ![name] = SENTINEL]
             /\ LegacyNextDial(c, rec, client[c].attempt + 1)
  /\ dials' = IF client[c].iface_name \in DOMAIN dials
              THEN [dials EXCEPT ![client[c].iface_name] = @ + 1] ELSE dials
  /\ UNCHANGED <<interfaces, zt_api, supervisor, last_call, lock, selector, health_data, monitor_vars, emitter, variant>>

LegacyRelayDone(c) ==
  /\ variant = "legacy"
  /\ client[c].pc = "RELAY" /\ client[c].up = "done" /\ client[c].down = "done"
  /\ LegacyLeave(c, client[c])
  /\ UNCHANGED <<interfaces, zt_api, supervisor, last_call, lock, selector, health_data, dials, monitor_vars, emitter, variant,
                 interface_latency>>

LegacyCancel(c) ==
  /\ variant = "legacy"
  /\ client[c].pc \in AwaitStates
  /\ LegacyLeave(c, [client[c] EXCEPT !.up = IF @ = "idle" THEN @ ELSE "done",
                                      !.down = IF @ = "idle" THEN @ ELSE "done"])
  /\ UNCHANGED <<interfaces, zt_api, supervisor, last_call, lock, selector, health_data, dials, monitor_vars, emitter, variant,
                 interface_latency>>

\* SocksProxy.__init__ of the legacy proxy: HealthChecker sets every latency
\* to 9999 and the proxy sets every connection count to 0.
LegacyInit ==
  /\ interfaces \in LegacyEnumerations
  /\ variant = "legacy"
  /\ interface_latency = [n \in Range(interfaces) |-> SENTINEL]
  /\ connection_counts = [n \in Range(interfaces) |-> 0]
  /\ health_data = <<>>
  /\ client = [c \in Conns |-> NewClient]
  /\ dials = [n \in Range(interfaces) |-> 0]
  /\ running = FALSE
  /\ monitor = NewMonitor
  /\ csv = None
  /\ emitter = [pc |-> "off", idx |-> 0, copy |-> <<>>]
  /\ lock = None
  /\ selector = NoCall
  /\ supervisor = Serving
  /\ zt_api = None
  /\ last_call = NoMutation

\* ----------------------------------------------------------- Health Monitor
\* The head of the while loop of run_health_checks, up to its first await:
\* a new round starts probing the first interface; with no interface the
\* for loop is empty and the task sleeps check_interval.
check_interval == 10
OUTAGE_PAUSE == 60

\* successes, failures, active_conns of a record
Counters(rec) == <<rec.successes, rec.failures, rec.active_conns>>

\* Interface names of the run that are ZeroTier adapters: 'zerotier' in
\* name.lower(); the network id is what re.search(r'\[([a-f0-9]{16})\]')
\* finds in the name, if anything.
ZT_NAME == "ZeroTier One [8056c2e21c000001]"
ZT_NAME_NO_ID == "zerotier0"
IsZeroTier(name) == name \in {ZT_NAME, ZT_NAME_NO_ID}
NetworkId(name) == IF name = ZT_NAME THEN "8056c2e21c000001" ELSE None
check_host == "www.google.com"
GATEWAY == "10.147.17.1"     \* 'via' of the network's 0.0.0.0/0 route

\* How zt_api.get_network and the search for the default route can end: a
\* route with a gateway, no such route, or an exception.  None: no lookup is
\* made for this interface.
LookupOutcomes == {"via", "no_default_route", "error"}
Lookups(name) ==
  IF zt_api # None /\ IsZeroTier(name) /\ NetworkId(name) # None
  THEN LookupOutcomes ELSE {None}
FirstLookups == IF interfaces = <<>> THEN {None} ELSE Lookups(interfaces[1])

\* Variant that keeps the host of the previous iteration, used to test the
\* claims below.
HostToCheck_Sticky(m, lookup) ==
  IF lookup = "via" THEN GATEWAY
  ELSE IF m.host_to_check # None THEN m.host_to_check ELSE check_host

\* host_to_check = self.check_host at the top of every iteration, replaced
\* by the gateway only when the lookup found one.
HostToCheck(m, lookup) ==
  IF lookup = "via" THEN GATEWAY ELSE check_host

\* One iteration of the for loop up to 'await self.check_latency(...)'.
ProbeStart(m, i, lookup) ==
  [m EXCEPT !.pc = "probing", !.idx = i, !.outcome = None,
            !.before = Counters(health_data[interfaces[i]]),
            !.host_to_check = HostToCheck(m, lookup),
            !.targets = Append(@, [lookup |-> lookup, host |-> HostToCheck(m, lookup)])]

RoundStart(m, lookup) ==
  IF Len(interfaces) = 0
  THEN [m EXCEPT !.pc = "sleeping", !.failed_checks = 0, !.sleep = check_interval,
                 !.rounds = Min(@ + 1, MaxRounds), !.round = <<>>, !.targets = <<>>]
  ELSE ProbeStart([m EXCEPT !.failed_checks = 0, !.rounds = Min(@ + 1, MaxRounds),
                            !.round = <<>>, !.targets = <<>>], 1, lookup)

\* How the timed TCP connect of a probe can end.
ProbeOutcomes ==
  { [connected |-> TRUE, elapsed_ms |-> ms, error |-> None] : ms \in MeasuredLatencies }
  \cup { [connected |-> FALSE, elapsed_ms |-> 0, error |-> e] :
           e \in {"TimeoutError", "OSError"} }

\* Variant of check_latency used to test the claims below.
check_latency_ZeroOnError(outcome) ==
  IF outcome.connected THEN outcome.elapsed_ms ELSE 0

\* check_latency: the elapsed milliseconds, or 9999.0 on timeout / OSError.
check_latency(outcome) ==
  IF outcome.connected THEN outcome.elapsed_ms ELSE SENTINEL

\* First step of the task: self.running = True, then the loop head.
MonitorStart ==
  /\ variant = "netmix"
  /\ LoopFree({})
  /\ monitor.pc = "created"
  /\ running' = TRUE
  /\ \E lookup \in FirstLookups : monitor' = RoundStart(monitor, lookup)
  /\ UNCHANGED <<interfaces, zt_api, supervisor, last_call, lock, selector, health_data, proxy_vars, csv, emitter, legacy_vars>>

\* check_latency returned for interfaces[idx]: a measured latency, or the
\* sentinel on timeout / OSError.  failed_checks is updated, the lock is
\* taken and the sample appended; the task is now in _log_to_csv, a blocking
\* file write made inside the critical section.
ProbeDone ==
  /\ variant = "netmix"
  /\ monitor.pc = "probing"
  /\ LoopFree({})
  /\ \E outcome \in ProbeOutcomes :
       LET name == interfaces[monitor.idx]
           latency == check_latency(outcome)
           failed_checks == monitor.failed_checks + (IF latency >= SENTINEL THEN 1 ELSE 0)
           health_snapshot == Append_latency(health_data[name], latency)
       IN /\ Len(health_snapshot.latencies) <= MaxListLen
          /\ health_data' = [health_data EXCEPT ![name] = health_snapshot]
          /\ monitor' = [monitor EXCEPT !.pc = "logging", !.failed_checks = failed_checks,
                                        !.round = Append(@, latency), !.outcome = outcome]
  /\ lock' = "monitor"
  /\ UNCHANGED <<interfaces, zt_api, supervisor, last_call, selector, proxy_vars, running, csv, emitter, legacy_vars>>

\* Variant of the pause chosen after a round, used to test the claims below.
NextSleep_AnyFailed(failed_checks) ==
  IF failed_checks > 0 THEN OUTAGE_PAUSE ELSE check_interval

\* The pause after the for loop: 60 s when every interface failed.
NextSleep(failed_checks) ==
  IF Len(interfaces) > 0 /\ failed_checks = Len(interfaces)
  THEN OUTAGE_PAUSE ELSE check_interval

\* _log_to_csv returned: the row holds the record as it is now; the lock is
\* released and the for loop goes on to the next interface, or the round is
\* over and the task sleeps.
log_to_csv ==
  /\ monitor.pc = "logging"
  /\ LET name == interfaces[monitor.idx]
         health_snapshot == health_data[name]
     IN csv' = <<name, monitor.round[Len(monitor.round)], health_snapshot.successes,
                 health_snapshot.failures, health_snapshot.active_conns>>
  /\ lock' = None
  /\ IF monitor.idx < Len(interfaces)
     THEN \E lookup \in Lookups(interfaces[monitor.idx + 1]) :
            monitor' = ProbeStart(monitor, monitor.idx + 1, lookup)
     ELSE monitor' = [monitor EXCEPT !.pc = "sleeping", !.outcome = None,
                                     !.sleep = NextSleep(monitor.failed_checks)]
  /\ UNCHANGED <<interfaces, zt_api, supervisor, last_call, selector, health_data, proxy_vars, running, emitter, legacy_vars>>

\* asyncio.sleep returned: the while condition is tested again.
MonitorWake ==
  /\ variant = "netmix"
  /\ LoopFree({})
  /\ monitor.pc = "sleeping"
  /\ \E lookup \in FirstLookups :
       monitor' = IF running THEN RoundStart(monitor, lookup)
                  ELSE [monitor EXCEPT !.pc = "done"]
  /\ UNCHANGED <<interfaces, zt_api, supervisor, last_call, lock, selector, health_data, proxy_vars, running, csv, emitter, legacy_vars>>

stop_health_checks ==
  /\ variant = "netmix"
  /\ LoopFree({})
  /\ running \/ monitor.pc = "created"
  /\ running' = FALSE
  /\ monitor' = [monitor EXCEPT !.stop_called = TRUE]
  /\ UNCHANGED <<interfaces, zt_api, supervisor, last_call, lock, selector, health_data, proxy_vars, csv, emitter, legacy_vars>>

\* ---------------------------------------------------- legacy health checker
\* src/health_checker.py check_latency: the elapsed milliseconds, or 9999.
legacy_check_latency(outcome) ==
  IF outcome.connected THEN outcome.elapsed_ms ELSE SENTINEL

\* First step of HealthChecker.run: self.running = True, the while test,
\* and the for loop up to the first await.  The task exists only when the
\* proxy built a health checker, that is with at least one interface.
LegacyCheckerStart ==
  /\ variant = "legacy"
  /\ interfaces # <<>>
  /\ monitor.pc = "created"
  /\ running' = TRUE
  /\ monitor' = [monitor EXCEPT !.pc = "probing", !.idx = 1]
  /\ UNCHANGED <<interfaces, zt_api, supervisor, last_call, lock, selector, health_data,
                 proxy_vars, csv, emitter, legacy_vars>>

\* check_latency returned: interface_latency[name] = latency, then the next
\* interface or the sleep.
LegacyProbeDone ==
  /\ variant = "legacy"
  /\ monitor.pc = "probing"
  /\ \E outcome \in ProbeOutcomes :
       interface_latency' = [interface_latency EXCEPT
                               ![interfaces[monitor.idx]] = legacy_check_latency(outcome)]
  /\ monitor' = IF monitor.idx < Len(interfaces)
                THEN [monitor EXCEPT !.idx = @ + 1]
                ELSE [monitor EXCEPT !.pc = "sleeping", !.sleep = check_interval]
  /\ UNCHANGED <<interfaces, zt_api, supervisor, last_call, lock, selector, health_data,
                 proxy_vars, running, csv, emitter, variant, connection_counts>>

\* asyncio.sleep(check_interval) returned: the while condition is tested.
LegacyCheckerWake ==
  /\ variant = "legacy"
  /\ monitor.pc = "sleeping"
  /\ monitor' = IF running THEN [monitor EXCEPT !.pc = "probing", !.idx = 1]
                ELSE [monitor EXCEPT !.pc = "done"]
  /\ UNCHANGED <<interfaces, zt_api, supervisor, last_call, lock, selector, health_data,
                 proxy_vars, running, csv, emitter, legacy_vars>>

\* HealthChecker.stop, called by SocksProxy.stop.
HealthChecker_stop ==
  /\ variant = "legacy"
  /\ interfaces # <<>>
  /\ running \/ monitor.pc = "created"
  /\ running' = FALSE
  /\ monitor' = [monitor EXCEPT !.stop_called = TRUE]
  /\ UNCHANGED <<interfaces, zt_api, supervisor, last_call, lock, selector, health_data,
                 proxy_vars, csv, emitter, legacy_vars>>

\* ------------------------------------------------------ web dashboard emitter
\* run_web_dashboard starts the emitter thread; each pass walks health_data
\* and, per interface, builds list(latencies) and stores it back under
\* 'latencies' of the record get_health_data returned (the store's record).
run_web_dashboard ==
  /\ emitter.pc = "off"
  /\ emitter' = IF Len(interfaces) = 0 THEN [emitter EXCEPT !.pc = "sleep"]
                ELSE [emitter EXCEPT !.pc = "copy", !.idx = 1]
  /\ UNCHANGED <<interfaces, zt_api, supervisor, last_call, lock, selector, health_data, proxy_vars, monitor_vars, legacy_vars>>

EmitterCopy ==
  /\ emitter.pc = "copy"
  /\ emitter' = [emitter EXCEPT !.pc = "assign",
                                !.copy = health_data[interfaces[emitter.idx]].latencies]
  /\ UNCHANGED <<interfaces, zt_api, supervisor, last_call, lock, selector, health_data, proxy_vars, monitor_vars, legacy_vars>>

EmitterAssign ==
  /\ emitter.pc = "assign"
  /\ health_data' = [health_data EXCEPT ![interfaces[emitter.idx]].latencies = emitter.copy,
                                        ![interfaces[emitter.idx]].deque = FALSE]
  /\ emitter' = IF emitter.idx < Len(interfaces)
                THEN [emitter EXCEPT !.pc = "copy", !.idx = @ + 1, !.copy = <<>>]
                ELSE [emitter EXCEPT !.pc = "sleep", !.idx = 0, !.copy = <<>>]
  /\ UNCHANGED <<interfaces, zt_api, supervisor, last_call, lock, selector, proxy_vars, monitor_vars, legacy_vars>>

\* time.sleep(2) returned: the next pass.
EmitterWake ==
  /\ emitter.pc = "sleep" /\ Len(interfaces) > 0
  /\ emitter' = [emitter EXCEPT !.pc = "copy", !.idx = 1]
  /\ UNCHANGED <<interfaces, zt_api, supervisor, last_call, lock, selector, health_data, proxy_vars, monitor_vars, legacy_vars>>

\* ------------------------------------------------- the selector on its own
\* Health Store contents the selector may be handed: any history of at most
\* history_len samples (measured or sentinel), any small outcome counters.
SelectorEnumerations == { <<>>, <<"WiFi">>, <<"WiFi", "Eth">>, <<"Eth", "WiFi">> }
SnapshotLatencies == MeasuredLatencies \cup {SENTINEL}
Histories == UNION { [1 .. k -> SnapshotLatencies] : k \in 0 .. history_len }
SnapshotRecords ==
  { [NewMetrics EXCEPT !.latencies = l, !.successes = s, !.failures = f] :
      l \in Histories, s \in 0 .. MaxCount, f \in 0 .. MaxCount }

SelectorInit ==
  /\ interfaces \in SelectorEnumerations
  /\ health_data \in [Range(interfaces) -> SnapshotRecords]
  /\ client = [c \in Conns |-> NewClient]
  /\ dials = [n \in Range(interfaces) |-> 0]
  /\ running = FALSE
  /\ monitor = NewMonitor
  /\ csv = None
  /\ emitter = [pc |-> "off", idx |-> 0, copy |-> <<>>]
  /\ variant = "netmix"
  /\ interface_latency = <<>>
  /\ connection_counts = <<>>
  /\ lock = None
  /\ selector = NoCall
  /\ supervisor = Serving
  /\ zt_api = None
  /\ last_call = NoMutation

\* best = predictor.predict_best_interface(connection_manager.get_health_data())
Predict ==
  /\ selector.calls < MaxCalls
  /\ selector' = [calls |-> selector.calls + 1,
                  snapshot |-> get_health_data(health_data),
                  result |-> predict_best_interface(get_health_data(health_data), interfaces),
                  repeat |-> selector.calls > 0 /\ selector.snapshot = get_health_data(health_data)]
  /\ UNCHANGED <<interfaces, zt_api, supervisor, last_call, lock, health_data, proxy_vars, monitor_vars, emitter, legacy_vars>>

\* A dial outcome is recorded between two calls of the selector.
RecordOutcome ==
  /\ \E n \in Range(interfaces) :
       \/ /\ health_data[n].successes < MaxCount
          /\ health_data' = record_success(health_data, n)
       \/ /\ health_data[n].failures < MaxCount
          /\ health_data' = record_failure(health_data, n)
  /\ UNCHANGED <<interfaces, zt_api, supervisor, last_call, lock, selector, proxy_vars, monitor_vars, emitter, legacy_vars>>

SelectorNext == Predict \/ RecordOutcome
SelectorSpec == SelectorInit /\ [][SelectorNext]_vars

\* ------------------------------------------- the Health Store called directly
\* Names a caller may pass: the enumerated ones and one the store never held.
CallerNames == {"WiFi", "Eth", "tun0"}
Mutators == {"record_success", "record_failure", "record_bytes_sent",
             "record_bytes_received", "increment_active_conn", "decrement_active_conn"}

ApplyMutator(op, hd, name, num_bytes) ==
  CASE op = "record_success" -> record_success(hd, name)
    [] op = "record_failure" -> record_failure(hd, name)
    [] op = "record_bytes_sent" -> record_bytes_sent(hd, name, num_bytes)
    [] op = "record_bytes_received" -> record_bytes_received(hd, name, num_bytes)
    [] op = "increment_active_conn" -> increment_active_conn(hd, name)
    [] op = "decrement_active_conn" -> decrement_active_conn(hd, name)

\* await connection_manager.<op>(name[, num_bytes])
StoreCall ==
  /\ last_call.calls < MaxMutations
  /\ \E op \in Mutators, name \in CallerNames, num_bytes \in {1, CHUNK} :
       /\ health_data' = ApplyMutator(op, health_data, name, num_bytes)
       /\ last_call' = [calls |-> last_call.calls + 1, op |-> op, name |-> name]
  /\ UNCHANGED <<interfaces, zt_api, supervisor, lock, selector, proxy_vars, monitor_vars, emitter,
                 legacy_vars>>

StoreNext == StoreCall
StoreSpec == Init /\ [][StoreNext]_vars

\* ------------------------------------------------------------ specifications
HandshakeStep(c) ==
    \/ ReadGreeting(c)
    \/ ReadMethods(c)
    \/ ReadRequest(c)
    \/ ReadIPv4(c)
    \/ ReadDomainLen(c)
    \/ ReadDomain(c)

PumpStep(c) ==
    \/ PumpUp(c)
    \/ PumpDown(c)
    \/ PumpUpEnd(c)
    \/ PumpDownEnd(c)

\* A step of a handler task; the event loop runs no task while the monitor
\* task is blocked in its file write.
ClientStep(c) ==
  /\ LoopFree({c})
  /\ \/ HandshakeStep(c)
     \/ ReadPort(c)
     \/ DialSuccess(c)
     \/ SendReply(c)
     \/ DialFailure(c)
     \/ PumpStep(c)
     \/ RelayDone(c)
     \/ Cancel(c)

LegacyClientStep(c) ==
    \/ LegacyReadPort(c)
    \/ LegacyDialSuccess(c)
    \/ LegacyDialFailure(c)
    \/ LegacyRelayDone(c)
    \/ LegacyCancel(c)

MonitorStep ==
    \/ MonitorStart
    \/ ProbeDone
    \/ log_to_csv
    \/ MonitorWake
    \/ stop_health_checks

EmitterStep ==
    \/ run_web_dashboard
    \/ EmitterCopy
    \/ EmitterAssign
    \/ EmitterWake

\* Client inputs of the concurrent specifications: every request arrives whole.
AcceptWhole(c) == AcceptFrom(c, ClientInputs, {FALSE})
\* Well-formed CONNECT requests: IPv4 with one payload byte, domain "ab".
ValidInputs == { <<5, 1, 0,  5, 1, 0, 1,  93, 184, 216, 34,  0, 80,  7>>,
                 <<5, 1, 0,  5, 1, 0, 3,  2, 97, 98,  0, 80>> }
AcceptValid(c) == AcceptFrom(c, ValidInputs, {FALSE})

\* Both proxies, NumConns concurrent client connections.
Next == \E c \in Conns : AcceptWhole(c) \/ ClientStep(c) \/ LegacyClientStep(c)
Spec == (Init \/ LegacyInit) /\ [][Next]_vars

\* The same, with the event loop's scheduling: a handler that can take a step
\* (its await has completed, or its cancellation is pending) eventually runs.
LiveSpec ==
  /\ (Init \/ LegacyInit) /\ [][Next]_vars
  /\ \A c \in Conns : WF_vars(ClientStep(c) \/ LegacyClientStep(c))

\* One connection, any input, bytes arriving in any segmentation.
HandshakeNext == Accept(1) \/ ClientStep(1)
HandshakeSpec == Init /\ [][HandshakeNext]_vars

\* The health monitor and the web dashboard emitter on the Health Store.
MonitorNext == MonitorStep \/ EmitterStep
MonitorSpec == Init /\ [][MonitorNext]_vars

\* One well-formed connection dispatched while the health monitor runs.
FailoverNext == AcceptValid(1) \/ ClientStep(1) \/ MonitorStep
FailoverSpec == Init /\ [][FailoverNext]_vars

\* One well-formed connection dispatched while the dashboard emitter runs.
DashboardNext == AcceptValid(1) \/ ClientStep(1) \/ EmitterStep
DashboardSpec == Init /\ [][DashboardNext]_vars

\* The health monitor of a ConnectionManager built with a ZeroTier API
\* client (or none) over interfaces that include ZeroTier adapters.
OverlayEnumerations == { <<ZT_NAME, "Eth">>, <<"Eth", ZT_NAME>>,
                         <<ZT_NAME_NO_ID, ZT_NAME>> }
OverlayInit ==
  /\ interfaces \in OverlayEnumerations
  /\ zt_api \in {None, "ZeroTierAPI"}
  /\ health_data = [n \in Range(interfaces) |-> NewMetrics]
  /\ client = [c \in Conns |-> NewClient]
  /\ dials = [n \in Range(interfaces) |-> 0]
  /\ running = FALSE
  /\ monitor = NewMonitor
  /\ csv = None
  /\ emitter = [pc |-> "off", idx |-> 0, copy |-> <<>>]
  /\ lock = None
  /\ selector = NoCall
  /\ supervisor = Serving
  /\ last_call = NoMutation
  /\ variant = "netmix"
  /\ interface_latency = <<>>
  /\ connection_counts = <<>>
OverlayNext == MonitorStep
OverlaySpec == OverlayInit /\ [][OverlayNext]_vars

\* ------------------------------------------------------------- supervisor
\* The program from the moment the interpreter enters the __main__ block.
\* get_active_interfaces() may return no interface at all.
SupervisorInit ==
  /\ variant \in {"netmix", "legacy"}
  /\ interfaces \in LegacyEnumerations
  /\ health_data = IF variant = "netmix" THEN [n \in Range(interfaces) |-> NewMetrics]
                   ELSE <<>>
  /\ interface_latency = IF variant = "legacy" THEN [n \in Range(interfaces) |-> SENTINEL]
                         ELSE <<>>
  /\ connection_counts = IF variant = "legacy" THEN [n \in Range(interfaces) |-> 0]
                         ELSE <<>>
  /\ client = [c \in Conns |-> NewClient]
  /\ dials = [n \in Range(interfaces) |-> 0]
  /\ running = FALSE
  /\ monitor = NewMonitor
  /\ csv = None
  /\ emitter = [pc |-> "off", idx |-> 0, copy |-> <<>>]
  /\ lock = None
  /\ selector = NoCall
  /\ supervisor = Launching
  /\ zt_api = None
  /\ last_call = NoMutation

\* netmix/main.py: curses.wrapper(main) calls main(stdscr); main is an
\* async def, so the call only builds a coroutine object that nothing
\* awaits.  No statement of main runs: interfaces are not enumerated, no
\* task is created, the finally clause prints and the script ends with
\* exit status 0.
NetmixLaunch ==
  /\ variant = "netmix"
  /\ supervisor.pc = "launch"
  /\ supervisor' = [supervisor EXCEPT !.pc = "exited", !.exit_code = 0]
  /\ UNCHANGED <<interfaces, zt_api, last_call, lock, selector, health_data, client, dials,
                 monitor_vars, emitter, legacy_vars>>

\* src/socks_proxy.py: asyncio.run(main(stdscr)) runs main, which builds the
\* SocksProxy (no interface: a warning, health_checker = None) and creates
\* the proxy task.
LegacyLaunch ==
  /\ variant = "legacy"
  /\ supervisor.pc = "launch"
  /\ supervisor' = [supervisor EXCEPT !.pc = "starting", !.proxy_task = "created"]
  /\ UNCHANGED <<interfaces, zt_api, last_call, lock, selector, health_data, client, dials,
                 monitor_vars, emitter, legacy_vars>>

\* SocksProxy.start (legacy): the health checker task is created when there
\* is a health checker, then start_server binds the listener or raises
\* OSError, which ends the proxy task and makes gather raise in main.
LegacyProxyStart ==
  /\ variant = "legacy"
  /\ supervisor.pc = "starting"
  /\ \E bind_ok \in BOOLEAN :
       supervisor' = [supervisor EXCEPT
         !.manager_task = IF interfaces # <<>> THEN "running" ELSE "none",
         !.proxy_task = IF bind_ok THEN "running" ELSE "failed",
         !.listening = bind_ok,
         !.pc = IF bind_ok THEN "serving" ELSE "stopping",
         !.shutdown = ~bind_ok]
  /\ UNCHANGED <<interfaces, zt_api, last_call, lock, selector, health_data, client, dials,
                 monitor_vars, emitter, legacy_vars>>

\* Variant of the shutdown path that leaves the proxy task running, used to
\* test the claims below.
ShutdownBegin_NoCancel ==
  /\ variant = "legacy"
  /\ supervisor.pc = "serving"
  /\ supervisor' = [supervisor EXCEPT !.pc = "stopping", !.shutdown = TRUE]
  /\ UNCHANGED <<interfaces, zt_api, last_call, lock, selector, health_data, client, dials,
                 monitor_vars, emitter, legacy_vars>>

\* The shutdown path of main (legacy): gather is cancelled or raises, the
\* finally clause cancels the proxy task and awaits proxy.stop().  The
\* cancelled serve_forever closes the server before the event loop runs
\* another accept callback, and stop() closes it again.
ShutdownBegin ==
  /\ variant = "legacy"
  /\ supervisor.pc = "serving"
  /\ supervisor' = [supervisor EXCEPT !.pc = "stopping", !.shutdown = TRUE,
                                      !.proxy_task = "cancelled",
                                      !.listening = FALSE]
  /\ UNCHANGED <<interfaces, zt_api, last_call, lock, selector, health_data, client, dials,
                 monitor_vars, emitter, legacy_vars>>

\* proxy.stop() returns once the health checker task has ended; main ends,
\* asyncio.run returns or re-raises: KeyboardInterrupt is caught by the
\* __main__ block (exit status 0), the OSError of a failed bind is not
\* (traceback, exit status 1).
ShutdownEnd ==
  /\ variant = "legacy"
  /\ supervisor.pc = "stopping"
  /\ supervisor' = [supervisor EXCEPT
       !.pc = "exited",
       !.manager_task = IF @ = "none" THEN "none" ELSE "done",
       !.exit_code = IF supervisor.proxy_task = "failed" THEN 1 ELSE 0]
  /\ UNCHANGED <<interfaces, zt_api, last_call, lock, selector, health_data, client, dials,
                 monitor_vars, emitter, legacy_vars>>

SupervisorStep ==
    \/ NetmixLaunch
    \/ LegacyLaunch
    \/ LegacyProxyStart
    \/ ShutdownBegin
    \/ ShutdownEnd

\* The handler tasks run as long as the event loop does.
SupervisedClientStep(c) ==
  /\ supervisor.pc \in {"serving", "stopping"}
  /\ \/ AcceptValid(c)
     \/ LoopFree({c}) /\ HandshakeStep(c)
     \/ LoopFree({c}) /\ PumpStep(c)
     \/ LegacyClientStep(c)

SupervisorNext == SupervisorStep \/ \E c \in Conns : SupervisedClientStep(c)
SupervisorSpec == SupervisorInit /\ [][SupervisorNext]_vars

\* The interpreter runs the __main__ block and the event loop runs every
\* task it has been given.
SupervisorLiveSpec ==
  /\ SupervisorSpec
  /\ WF_vars(NetmixLaunch) /\ WF_vars(LegacyLaunch) /\ WF_vars(LegacyProxyStart)

\* ------------------------------------------------- legacy proxy with checker
LegacyCheckerTask ==
    \/ LegacyCheckerStart
    \/ LegacyProbeDone
    \/ LegacyCheckerWake

\* The legacy proxy serving one connection while its health checker runs.
LegacyNext == SupervisedClientStep(1) \/ LegacyCheckerTask \/ HealthChecker_stop
LegacySpec == LegacyInit /\ [][LegacyNext]_vars

\* ------------------------------------------------ the monitor task and stop
\* The steps of the run_health_checks task itself.
MonitorTask ==
    \/ MonitorStart
    \/ ProbeDone
    \/ log_to_csv
    \/ MonitorWake

\* The health monitor task of either program and its stop signal, given at
\* any moment; the event loop runs the task whenever its await has completed.
StopNext == MonitorTask \/ stop_health_checks \/ LegacyCheckerTask \/ HealthChecker_stop
StopSpec ==
  /\ (Init \/ LegacyInit) /\ [][StopNext]_vars
  /\ WF_vars(MonitorTask) /\ WF_vars(LegacyCheckerTask)

\* ------------------------------------------------------------------ claims
\* Outbound dials a connection has started: the completed ones and the one
\* it is suspended in.
DialAttempts(c) ==
  Len(client[c].tried) + (IF client[c].pc = "DIALING" THEN 1 ELSE 0)
Netmix == variant = "netmix"
Legacy == variant = "legacy"
InFlight(c) == client[c].pc \notin {"NEW", "CLOSED", "CRASHED"}

C2_CountersMatchDials ==
  Netmix =>
    \A n \in DOMAIN health_data :
      health_data[n].successes + health_data[n].failures = dials[n]

\* C4: when every dial of a request failed, the client got the method reply
\* and then exactly the 10-byte host-unreachable reply, no pump was started,
\* and the step that gave up recorded no success and raised no active_conns.
AllFailed(c) ==
  /\ client[c].pc = "CLOSED" /\ client[c].remote_writer = None
  /\ Len(client[c].tried) = Len(interfaces)
C4_State ==
  Netmix =>
    \A c \in Conns :
      AllFailed(c) =>
        /\ client[c].out = <<METHOD_REPLY, <<5, 4, 0, 1, 0, 0, 0, 0, 0, 0>> >>
        /\ client[c].up = "idle" /\ client[c].down = "idle"
        /\ client[c].iface_name_used = None
        /\ client[c].to_remote = 0 /\ client[c].to_client = 0
C4_Step ==
  \A c \in Conns :
    (Netmix /\ client[c].pc = "DIALING" /\ client'[c].remote_writer = None
       /\ Len(client'[c].tried) > Len(client[c].tried)) =>
      \A n \in DOMAIN health_data :
        /\ health_data'[n].successes = health_data[n].successes
        /\ health_data'[n].active_conns = health_data[n].active_conns
C4_HostUnreachable == [] C4_State /\ [][C4_Step]_vars

\* C4 witness: a request whose two dials both failed.
C4_Witness ==
  \E c \in Conns :
    /\ Netmix /\ AllFailed(c) /\ client[c].tried = <<"WiFi", "Eth">>
    /\ Len(client[c].out) = 2

\* C5: active_conns of an interface is the number of streams relaying on it:
\* every increment is undone by exactly one decrement when the handler
\* leaves, so with no connection in flight every active_conns is 0.
C5_Balanced ==
  Netmix =>
    /\ \A n \in DOMAIN health_data :
         health_data[n].active_conns =
           Cardinality({ c \in Conns : client[c].pc \in {"REPLYING", "RELAY"}
                                        /\ client[c].iface_name_used = n })
    /\ (\A c \in Conns : ~InFlight(c)) =>
         \A n \in DOMAIN health_data : health_data[n].active_conns = 0

\* C5 witness: every connection is closed, and one of them had incremented
\* active_conns and failed at the reply write while another one relayed.
C5_Witness ==
  /\ Netmix
  /\ \A c \in Conns : client[c].pc = "CLOSED"
  /\ \E c, d \in Conns :
       /\ client[c].iface_name_used # None /\ client[c].up = "idle"
       /\ client[d].iface_name_used # None /\ client[d].up = "done"

\* C6: active_conns (connection_counts in the legacy proxy) is never negative.
C6_NonNegative ==
  /\ \A n \in DOMAIN health_data : health_data[n].active_conns >= 0
  /\ \A n \in DOMAIN connection_counts : connection_counts[n] >= 0

\* C6 witness: a cancelled dial (no increment, no decrement) next to a stream
\* that is relaying on the same interface.
C6_Witness ==
  \E c, d \in Conns :
    /\ Netmix
    /\ client[c].pc = "CLOSED" /\ client[c].attempt > 0
    /\ client[c].tried = <<>> /\ client[c].iface_name = "WiFi"
    /\ client[d].pc = "RELAY" /\ client[d].iface_name_used = "WiFi"
    /\ health_data["WiFi"].active_conns = 1

\* The interfaces a request has dialed or is dialing, in order.
Dialed(c) ==
  client[c].tried \o (IF client[c].pc = "DIALING" THEN <<client[c].iface_name>> ELSE <<>>)
NoRepeat(s) == \A i, j \in 1 .. Len(s) : i # j => s[i] # s[j]

\* C3: the successive dials of one request go to interfaces not yet tried in
\* that request; with WiFi preferred by its lower latency mean and failing,
\* the second dial goes via Eth.
C3_FallsBackToUntried ==
  \A c \in Conns :
    /\ NoRepeat(Dialed(c))
    /\ (/\ Len(Dialed(c)) = 2 /\ Dialed(c)[1] = "WiFi"
        /\ health_data["WiFi"].latencies # <<>> /\ health_data["Eth"].latencies # <<>>
        /\ ScoreLess(health_data["WiFi"], health_data["Eth"]))
       => Dialed(c)[2] = "Eth"

\* C7: the latency history of every interface holds at most history_len
\* samples, also while the web dashboard emitter reads the health data.
C7_HistoryBounded ==
  \A n \in DOMAIN health_data : Len(health_data[n].latencies) <= history_len

\* C8: what a consumer does to the view get_health_data returned does not
\* reach the store: a failed dial changes failures only by the one
\* record_failure call, and a step of the dashboard emitter leaves
\* health_data as it is.
FailedDials(n) ==
  (dials'[n] - dials[n]) - (health_data'[n].successes - health_data[n].successes)
C8_Step ==
  /\ \A n \in DOMAIN health_data :
       health_data'[n].failures - health_data[n].failures = FailedDials(n)
  /\ emitter' # emitter => health_data' = health_data
C8_SnapshotIsolated == [][C8_Step]_vars

\* C9: a CONNECT request with atyp = 0x04 is answered with a rejecting SOCKS5
\* reply before the connection is closed, and no dial is attempted.
IPv6Rejected(c) ==
  client[c].pc = "CLOSED" /\ client[c].cmd = 1 /\ client[c].atyp = 4
C9_IPv6Reply ==
  \A c \in Conns :
    IPv6Rejected(c) =>
      /\ Len(client[c].out) = 2
      /\ client[c].out[2][1] = 5 /\ client[c].out[2][2] # 0
      /\ client[c].tried = <<>>

\* C10: a connection goes through GREETING, METHODS, REQUEST, DIALING, RELAY,
\* CLOSED in that order (CLOSED may follow any state): the method reply is
\* written before the request is read, no dial starts before the request is
\* decoded, and the success reply is written before a pump forwards a byte.
Rank(pc) ==
  CASE pc = "NEW" -> 0
    [] pc = "GREETING" -> 1
    [] pc = "METHODS" -> 2
    [] pc \in {"REQUEST", "ADDR_IPV4", "ADDR_LEN", "ADDR_DOMAIN", "PORT"} -> 3
    [] pc \in {"DIALING", "REPLYING"} -> 4
    [] pc = "RELAY" -> 5
    [] OTHER -> 6
RequestRead(c) ==
  client[c].cmd # 0 \/ (Rank(client[c].pc) \in {3, 4, 5} /\ client[c].pc # "REQUEST")
IsSuccessReply(r) == Len(r) = 10 /\ SubSeq(r, 1, 4) = <<5, 0, 0, 1>>
C10_State ==
  \A c \in Conns :
    /\ RequestRead(c) => (Len(client[c].out) >= 1 /\ client[c].out[1] = <<5, 0>>)
    /\ Dialed(c) # <<>> =>
         (client[c].cmd = 1 /\ client[c].atyp \in {1, 3} /\ client[c].dest_addr # NoAddr)
    /\ (client[c].up # "idle" \/ client[c].down # "idle"
          \/ client[c].to_remote + client[c].from_remote > 0) =>
         (Len(client[c].out) = 2 /\ IsSuccessReply(client[c].out[2]))
C10_Step ==
  \A c \in Conns :
    LET r == Rank(client[c].pc)
        r2 == Rank(client'[c].pc)
    IN r2 = r \/ r2 = r + 1 \/ r2 = 6
C10_StateOrder == [] C10_State /\ [][C10_Step]_vars

\* C10 witness: a connection in RELAY whose pumps have forwarded a byte in
\* each direction after an IPv4 request that arrived in pieces.
C10_Witness ==
  \E c \in Conns :
    /\ client[c].pc = "RELAY" /\ client[c].atyp = 1 /\ client[c].segmented
    /\ client[c].to_remote = 1 /\ client[c].to_client = 1
\* ---- selector claims: the score as the specification words it, as exact
\* fractions.  MeanNum/MeanDen is the latency mean (9999 for an empty list),
\* SuccNum/SuccDen the success rate (1 for zero attempts).
MeanNum(d) == IF Len(d.latencies) = 0 THEN 9999 ELSE Sum(d.latencies)
MeanDen(d) == IF Len(d.latencies) = 0 THEN 1 ELSE Len(d.latencies)
SuccNum(d) == IF d.successes + d.failures = 0 THEN 1 ELSE d.successes
SuccDen(d) == IF d.successes + d.failures = 0 THEN 1 ELSE d.successes + d.failures
\* 0.8 * mean - 20 * rate = WeightedNum / WeightedDen, WeightedDen > 0
WeightedNum(d) == 8 * MeanNum(d) * SuccDen(d) - 200 * SuccNum(d) * MeanDen(d)
WeightedDen(d) == 10 * MeanDen(d) * SuccDen(d)
WeightedLeq(a, b) == WeightedNum(a) * WeightedDen(b) <= WeightedNum(b) * WeightedDen(a)
WeightedEq(a, b) == WeightedNum(a) * WeightedDen(b) = WeightedNum(b) * WeightedDen(a)
MeanLower(a, b) == MeanNum(a) * MeanDen(b) < MeanNum(b) * MeanDen(a)
RateHigher(a, b) == SuccNum(a) * SuccDen(b) > SuccNum(b) * SuccDen(a)
Called == selector.calls > 0
PositionOf(name) == CHOOSE i \in 1 .. Len(interfaces) : interfaces[i] = name

\* C11: a call of the heuristic selector returns an interface of the snapshot
\* whose score 0.8*avg_latency - 20*success_rate is minimal (avg_latency 9999
\* for an empty history, success_rate 1 for zero attempts), and returns no
\* interface exactly when the snapshot is empty.
C11_MinimumScore ==
  Called =>
    LET S == selector.snapshot
        r == selector.result
    IN /\ (r = None) <=> (DOMAIN S = {})
       /\ r # None => /\ r \in DOMAIN S
                      /\ \A m \in DOMAIN S : WeightedLeq(S[r], S[m])

\* The selector preferred the second interface, which has had no attempt,
\* over a first one with an empty history.
C11_Witness ==
  /\ Called /\ Len(interfaces) = 2
  /\ selector.result = interfaces[2]
  /\ selector.snapshot[interfaces[1]].latencies = <<>>
  /\ selector.snapshot[interfaces[2]].successes + selector.snapshot[interfaces[2]].failures = 0
  /\ selector.snapshot[interfaces[2]].latencies # <<>>

\* X has a strictly lower latency mean and a strictly higher success rate
\* than every other interface of the snapshot.
Dominates(S, x) ==
  \A y \in DOMAIN S \ {x} : MeanLower(S[x], S[y]) /\ RateHigher(S[x], S[y])

\* C12: when one interface of the snapshot strictly dominates all others
\* (lower latency mean and higher success rate), the selector returns it.
C12_DominantWins ==
  Called => \A x \in DOMAIN selector.snapshot :
              Dominates(selector.snapshot, x) => selector.result = x

\* The dominant interface was the second of two in enumeration order.
C12_Witness ==
  /\ Called /\ Len(interfaces) = 2
  /\ Dominates(selector.snapshot, interfaces[2])
  /\ selector.result = interfaces[2]

\* C13: among the interfaces that share the best score, the selector returns
\* the one that comes first in enumeration order.
C13_TieFirst ==
  (Called /\ selector.result # None) =>
    \A i \in 1 .. Len(interfaces) :
      (i < PositionOf(selector.result)) =>
        ~WeightedEq(selector.snapshot[interfaces[i]], selector.snapshot[selector.result])

\* Two interfaces with different records and the same score; the first won.
C13_Witness ==
  /\ Called /\ Len(interfaces) = 2
  /\ selector.snapshot[interfaces[1]] # selector.snapshot[interfaces[2]]
  /\ WeightedEq(selector.snapshot[interfaces[1]], selector.snapshot[interfaces[2]])
  /\ selector.result = interfaces[1]

\* C14: a call of the selector changes no Health Store record (the snapshot
\* it is given is the store's own), and a call on a snapshot identical to the
\* previous call's returns the same interface.
C14_Step ==
  (selector'.calls = selector.calls + 1) =>
     /\ health_data' = health_data
     /\ selector'.snapshot = health_data
     /\ (Called /\ selector.snapshot = health_data) => selector'.result = selector.result
AllSentinel(round) == \A i \in 1 .. Len(round) : round[i] = 9999

\* C15: after a probe round the monitor sleeps 60 s exactly when at least one
\* interface was probed and every probe of the round returned the sentinel
\* 9999; otherwise it sleeps check_interval.
C15_Backoff ==
  monitor.pc = "sleeping" =>
    monitor.sleep = IF Len(monitor.round) > 0 /\ AllSentinel(monitor.round)
                    THEN 60 ELSE check_interval

\* A later round in which both interfaces failed, followed by the long pause.
C15_Witness ==
  /\ monitor.pc = "sleeping" /\ monitor.rounds >= 2
  /\ Len(monitor.round) = 2 /\ AllSentinel(monitor.round)
  /\ monitor.sleep = 60

\* C16: once stop_health_checks has cleared `running`, no probe of a further
\* interface is started: a step that starts a probe leaves `running` set.
C16_Step == (monitor'.pc = "probing" /\ monitor.pc # "probing") => running'
C16_StopBetweenProbes == [][C16_Step]_vars

\* ---- byte counters
NotRunning(c) == client[c].pc \in {"NEW", "CLOSED", "CRASHED"}
RECURSIVE SumOver(_, _, _)
\* sum of field f of the connections in cs that relayed through interface n
SumOver(cs, n, f) ==
  IF cs = {} THEN 0
  ELSE LET c == CHOOSE x \in cs : TRUE
       IN (IF client[c].iface_name_used = n THEN client[c][f] ELSE 0)
          + SumOver(cs \ {c}, n, f)

\* C17: when every stream is closed, bytes_sent of an interface is the number
\* of payload bytes delivered to the remotes through it and bytes_received
\* the number delivered to the clients; no undelivered byte is counted.
C17_BytesDelivered ==
  (Netmix /\ \A c \in Conns : NotRunning(c)) =>
    \A n \in DOMAIN health_data :
      /\ health_data[n].bytes_sent = SumOver(Conns, n, "to_remote")
      /\ health_data[n].bytes_received = SumOver(Conns, n, "to_client")

\* ---- sockets
Finished(c) == client[c].pc \in {"CLOSED", "CRASHED"}

\* C18: when a handler has finished, in either proxy, the client socket is
\* closed and the outbound socket, if one was opened, is closed.
C18_SocketsClosed ==
  \A c \in Conns :
    Finished(c) => /\ client[c].client_writer = "closed"
                   /\ client[c].remote_writer \in {None, "closed"}

\* ---- the Health Store lock
\* The emitter thread is between reading and storing the history of n.
EmitterInside(n) == emitter.pc = "assign" /\ interfaces[emitter.idx] = n

\* C19: mutations of one record are serialized: a step that changes the
\* record of an interface is taken neither while another task holds the
\* Health Store lock nor while another thread is inside its own update of
\* that record.
C19_Step ==
  \A n \in DOMAIN health_data :
    (health_data'[n] # health_data[n]) =>
       /\ lock = None
       /\ (emitter' = emitter) => ~EmitterInside(n)
C19_Serialized == [][C19_Step]_vars

\* The monitor task is inside _log_to_csv (a blocking file write).
InFileWrite == monitor.pc = "logging"

\* C20: the Health Store lock is not held while a file write is in progress.
C20_NoIOUnderLock == ~(lock # None /\ InFileWrite)

\* ---- Health Store called with an unknown name
\* C21: a Health Store mutator called with a name that is not in the store
\* leaves the store, every record of it, exactly as it was.
C21_Step ==
  (last_call'.calls = last_call.calls + 1 /\ last_call'.name \notin DOMAIN health_data)
    => health_data' = health_data
C21_UnknownIgnored == [][C21_Step]_vars

\* The decrement was called with the unknown name after a known record had
\* been changed.
C21_Witness ==
  /\ last_call.op = "decrement_active_conn" /\ last_call.name = "tun0"
  /\ last_call.calls = 2
  /\ \E n \in DOMAIN health_data : health_data[n] # NewMetrics

\* ---- probe samples
\* A step in which a probe completes / in which its row has been logged.
ProbeCompletes == monitor.pc = "probing" /\ monitor'.pc = "logging"
RowLogged == monitor.pc = "logging" /\ monitor'.pc # "logging"
Probed == interfaces[monitor.idx]
Last(seq) == seq[Len(seq)]
AllButLast(seq) == SubSeq(seq, 1, Len(seq) - 1)

\* C26: recording a sample into a history that already holds history_len
\* samples evicts exactly the oldest one and appends the new one as newest,
\* the order of the others unchanged.
C26_Step ==
  (ProbeCompletes /\ Len(health_data[Probed].latencies) = history_len) =>
     health_data'[Probed].latencies =
       Tail(health_data[Probed].latencies) \o << Last(monitor'.round) >>
C26_EvictOldest == [][C26_Step]_vars

\* C27: a probe that completes appends exactly one sample to the probed
\* interface's history, 9999 when the connect timed out or raised an I/O
\* error and the measured milliseconds otherwise; and after the row of a
\* probe, failed or not, the next interface is probed (or the round ends
\* after the last one).
C27_Step ==
  /\ ProbeCompletes =>
       LET old == health_data[Probed].latencies
           new == health_data'[Probed].latencies
           o == monitor'.outcome
       IN /\ new # <<>>
          /\ Last(new) = IF o.connected THEN o.elapsed_ms ELSE 9999
          /\ AllButLast(new) = old \/ (old # <<>> /\ AllButLast(new) = Tail(old))
          /\ \A n \in DOMAIN health_data \ {Probed} : health_data'[n] = health_data[n]
  /\ RowLogged =>
       IF monitor.idx < Len(interfaces)
       THEN monitor'.pc = "probing" /\ monitor'.idx = monitor.idx + 1
       ELSE monitor'.pc = "sleeping"
C27_OneSamplePerProbe == [][C27_Step]_vars

\* The probe of the first interface failed, its sentinel is the newest
\* sample, and the probe of the second interface is in flight.
C27_Witness ==
  /\ monitor.pc = "probing" /\ monitor.idx = 2
  /\ monitor.round = <<9999>>
  /\ health_data[interfaces[1]].latencies # <<>>
  /\ Last(health_data[interfaces[1]].latencies) = 9999

\* ---- gauge and success reply
ReplyWritten(c) == Len(client[c].out) >= 2 /\ IsSuccessReply(client[c].out[2])

\* C29: active_conns of an interface counts only connections whose success
\* reply has been written: the increment comes after the reply.
C29_IncrementAfterReply ==
  Netmix =>
    \A n \in DOMAIN health_data :
      health_data[n].active_conns <=
        Cardinality({ c \in Conns : client[c].iface_name_used = n /\ ReplyWritten(c) })

\* ---- observation rows
\* C30: the row logged for a probe carries the probed interface's successes,
\* failures and active_conns as they were when the probe began, with the
\* latency just measured.
C30_Step ==
  RowLogged => csv' = << Probed, Last(monitor.round) >> \o monitor.before
C30_RowBeforeProbe == [][C30_Step]_vars

\* ---- isolation of client connections
\* C25: a step of one client connection, an error included, changes no other
\* connection's handler and leaves the listener as it was, and every
\* connection in flight goes on to the end of its own handler whatever
\* happened to the others.
C25_Step ==
  /\ \A c, d \in Conns :
       (c # d /\ client'[c] # client[c]) => client'[d] = client[d]
  /\ client' # client => supervisor'.listening = supervisor.listening
C28_Step ==
  Netmix =>
    \A c \in Conns :
      /\ (client[c].up = "run" /\ client'[c].up = "done") =>
            client'[c].remote_writer = "closed"
      /\ (client[c].down = "run" /\ client'[c].down = "done") =>
            client'[c].client_writer = "closed"
      /\ (client[c].pc = "RELAY" /\ client'[c].pc # "RELAY") =>
            /\ client'[c].pc = "CLOSED"
            /\ client'[c].up = "done" /\ client'[c].down = "done"
            /\ client'[c].remote_writer = "closed" /\ client'[c].client_writer = "closed"
            /\ health_data'[client[c].iface_name_used].active_conns =
                 health_data[client[c].iface_name_used].active_conns - 1
      /\ client[c].pc = "CLOSED" => client'[c] = client[c]
C28_RelayEnds ==
  /\ [][C28_Step]_vars
  /\ \A c \in Conns :
       (Netmix /\ client[c].pc = "RELAY"
          /\ (client[c].up = "done" \/ client[c].down = "done"))
         ~> (client[c].pc = "CLOSED")

\* A relayed connection was closed after both pumps ended, the remote->client
\* pump having delivered a byte, and the gauge is back at 0.
C28_Witness ==
  \E c \in Conns :
    /\ Netmix /\ client[c].pc = "CLOSED"
    /\ client[c].up = "done" /\ client[c].down = "done" /\ client[c].to_client > 0
    /\ health_data[client[c].iface_name_used].active_conns = 0

\* ---- startup and shutdown
\* C22: with no interface enumerated the startup is fatal: the listener is
\* never started, the health monitor task is never created, and the process
\* ends with exit status 1.
C22_FatalStartup ==
  interfaces = <<>> =>
    /\ ~supervisor.listening
    /\ supervisor.manager_task = "none"
    /\ supervisor.pc = "exited" => supervisor.exit_code = 1

\* C23: launched with at least one interface, the program eventually has the
\* health monitor task and the listener running together (or, when the
\* listener cannot be bound, ends as a fatal startup).
C23_BothStarted ==
  interfaces # <<>> =>
    <>(\/ supervisor.manager_task = "running" /\ supervisor.listening
       \/ supervisor.proxy_task = "failed")

\* C24: once the shutdown path has started no connection that has not been
\* accepted yet is accepted: it never enters the handshake.
C24_Step ==
  supervisor.shutdown =>
    \A c \in Conns : client[c].pc = "NEW" => client'[c].pc = "NEW"
C31_ProbeTarget ==
  \A i \in 1 .. Len(monitor.targets) :
    LET name == interfaces[i]
        t == monitor.targets[i]
        substituted == /\ zt_api # None
                       /\ IsZeroTier(name) /\ NetworkId(name) # None
                       /\ t.lookup = "via"
    IN /\ t.host = IF substituted THEN GATEWAY ELSE check_host
       /\ (i = monitor.idx /\ monitor.pc = "probing") => monitor.host_to_check = t.host

\* A round in which the first interface was probed against the gateway and
\* the second one, no overlay adapter, against the default target.
C31_Witness ==
  /\ Len(monitor.targets) = 2 /\ monitor.pc = "sleeping"
  /\ monitor.targets[1].host = GATEWAY
  /\ ~IsZeroTier(interfaces[2]) /\ monitor.targets[2].host = check_host

\* ---- the request as the client sent it
\* The fields of the greeting and of the request at their places in the byte
\* stream the client sent (RFC 1928 framing), whatever the reads returned.
SentNMethods(b) == b[2]
SentMethods(b) == SubSeq(b, 3, 2 + SentNMethods(b))
SentCmd(b) == b[2 + SentNMethods(b) + 2]
SentAtyp(b) == b[2 + SentNMethods(b) + 4]
SentAddrAt(b) == 2 + SentNMethods(b) + 5
SentValid(b) ==
  /\ Len(b) >= 2 /\ b[1] = SOCKS_VERSION
  /\ Len(b) >= 2 + SentNMethods(b) + 4
  /\ 0 \in Range(SentMethods(b))
  /\ SentCmd(b) = 1 /\ SentAtyp(b) \in {1, 3}
SentAddr(b) ==
  IF SentAtyp(b) = 1 THEN SubSeq(b, SentAddrAt(b), SentAddrAt(b) + 3)
  ELSE SubSeq(b, SentAddrAt(b) + 1, SentAddrAt(b) + b[SentAddrAt(b)])
SentPort(b) ==
  LET at == IF SentAtyp(b) = 1 THEN SentAddrAt(b) + 4
            ELSE SentAddrAt(b) + 1 + b[SentAddrAt(b)]
  IN from_bytes(SubSeq(b, at, at + 1))

\* C32: a connection whose greeting or request is not a no-auth CONNECT to
\* an IPv4 address or a domain never dials and leaves the Health Store as it
\* was built (one connection, no monitor).
C32_DialOnlyIfValid ==
  \A c \in Conns :
    (client[c].pc # "NEW" /\ ~SentValid(client[c].sent)) =>
      /\ client[c].pc \notin {"DIALING", "REPLYING", "RELAY"}
      /\ client[c].tried = <<>>
      /\ health_data = [n \in Range(interfaces) |-> NewMetrics]

\* C36: the destination dialed for a well-formed CONNECT is the address and
\* the port at their places in the bytes the client sent, however the reads
\* split them.
C36_DestinationFromBytes ==
  \A c \in Conns :
    (client[c].pc = "DIALING" /\ SentValid(client[c].sent)) =>
      /\ client[c].dest_addr = SentAddr(client[c].sent)
      /\ client[c].dest_port = SentPort(client[c].sent)

\* ---- replies
\* The SOCKS5 request replies (10 bytes: VER REP RSV ATYP ADDR PORT) among
\* the messages written to the client.
RequestReplies(c) ==
  { i \in 1 .. Len(client[c].out) : client[c].out[i] # METHOD_REPLY }

\* C33: at most one request reply is written to a client, the success reply
\* or the host-unreachable reply, however many dials were attempted.
C33_OneReply ==
  \A c \in Conns :
    /\ Cardinality(RequestReplies(c)) <= 1
    /\ \A i \in RequestReplies(c) :
         \/ client[c].out[i] = HOST_UNREACHABLE
         \/ IsSuccessReply(client[c].out[i])

\* The first dial failed, the second succeeded, and the client was sent the
\* method reply and one success reply.
C33_Witness ==
  \E c \in Conns :
    /\ Len(client[c].tried) = 2 /\ client[c].pc = "RELAY"
    /\ Len(client[c].out) = 2 /\ IsSuccessReply(client[c].out[2])

\* ---- legacy dial order
Ascending(names, lat) ==
  \A i, j \in 1 .. Len(names) : i < j => lat[names[i]] <= lat[names[j]]
IsPrefix(a, b) == Len(a) <= Len(b) /\ a = SubSeq(b, 1, Len(a))

\* C34: in the legacy proxy the list walked by a request holds every
\* interface once, in ascending order of the latencies read when the request
\* started; the dials made are a prefix of that list, none is made after a
\* success, and a failed dial sets the interface's latency to 9999.
C34_State ==
  \A c \in Conns :
    (Legacy /\ interfaces # <<>> /\ client[c].sorted_interfaces # <<>>) =>
      LET s == client[c].sorted_interfaces
      IN /\ Len(s) = Len(interfaces) /\ Range(s) = Range(interfaces)
         /\ Ascending(s, client[c].latency_read)
         /\ IsPrefix(client[c].tried, s)
         /\ client[c].pc = "DIALING" => client[c].iface_name = s[Len(client[c].tried) + 1]
         /\ client[c].iface_name_used # None =>
              client[c].iface_name_used = client[c].tried[Len(client[c].tried)]
C34_Step ==
  \A c \in Conns :
    (Legacy /\ interfaces # <<>>) =>
      /\ client[c].iface_name_used # None => client'[c].tried = client[c].tried
      /\ (client'[c].tried # client[c].tried /\ client'[c].iface_name_used = None) =>
           interface_latency'[client[c].iface_name] = SENTINEL
C34_LatencyOrder == [](C34_State) /\ [][C34_Step]_vars

\* Eth had the lower latency when the request started and was dialed first;
\* its dial failed, marking it 9999, and the dial via WiFi succeeded.
C34_Witness ==
  \E c \in Conns :
    /\ Legacy /\ client[c].tried = <<"Eth", "WiFi">>
    /\ client[c].latency_read["Eth"] < client[c].latency_read["WiFi"]
    /\ client[c].iface_name_used = "WiFi" /\ client[c].pc = "RELAY"
    /\ interface_latency["Eth"] = SENTINEL

\* ---- legacy default route
\* C35: in the legacy proxy started with no interface, a connection whose
\* dial over the default route succeeded has been sent the success reply
\* and is relayed (or was, and is closed).
C35_DefaultRouteServed ==
  \A c \in Conns :
    (Legacy /\ interfaces = <<>> /\ client[c].remote_writer # None) =>
      /\ \E i \in 1 .. Len(client[c].out) : IsSuccessReply(client[c].out[i])
      /\ client[c].pc \in {"RELAY", "CLOSED"}

\* ---- stopping the monitor
\* C37: once the stop signal has been given, the health monitor task
\* eventually terminates, whenever the signal came.
C37_StopTerminates == monitor.stop_called ~> (monitor.pc = "done")

\* ---- what the monitor writes
\* C38: a step of the health monitor task (or its stop signal) changes no
\* record of the Health Store except the latencies of the interface whose
\* probe just completed: successes, failures, active_conns, bytes_sent and
\* bytes_received of every interface stay as they were.
C38_Step ==
  (monitor' # monitor \/ running' # running) =>
    \A n \in Range(interfaces) :
      health_data'[n] # health_data[n] =>
        /\ monitor.pc = "probing" /\ n = interfaces[monitor.idx]
        /\ health_data'[n] =
             [health_data[n] EXCEPT !.latencies = health_data'[n].latencies]
C38_OnlyLatencies == [][C38_Step]_vars

\* The probe of Eth has just been recorded while WiFi holds failures
\* and a sample, and Eth a successful dial and an active stream.
C38_Witness ==
  /\ monitor.pc = "logging" /\ interfaces[monitor.idx] = "Eth"
  /\ health_data["WiFi"].failures > 0 /\ health_data["WiFi"].latencies # <<>>
  /\ health_data["Eth"].successes = 1 /\ health_data["Eth"].active_conns = 1
  /\ health_data["Eth"].latencies # <<>>

\* ---- one interface per stream
\* C39: the step in which a stream's dial succeeds records the success and
\* the new active connection on one and the same interface; from then on
\* every step of that stream changes the record of that interface only: its
\* pumps add their bytes to it and its cleanup decrements its active_conns.
C39_Step ==
  Netmix =>
    \A c \in Conns :
      client'[c] # client[c] =>
        LET used == client[c].iface_name_used
            now == client'[c].iface_name_used
        IN /\ (used = None /\ now # None) =>
                /\ health_data'[now].successes = health_data[now].successes + 1
                /\ health_data'[now].active_conns = health_data[now].active_conns + 1
                /\ \A n \in Range(interfaces) \ {now} : health_data'[n] = health_data[n]
           /\ used # None =>
                /\ now = used
                /\ \A n \in Range(interfaces) \ {used} : health_data'[n] = health_data[n]
                /\ health_data'[used].successes = health_data[used].successes
                /\ health_data'[used].failures = health_data[used].failures
                /\ health_data'[used].active_conns =
                     health_data[used].active_conns
                       - (IF client'[c].pc = "CLOSED" THEN 1 ELSE 0)
                /\ health_data'[used].bytes_sent - health_data[used].bytes_sent
                     = Len(client[c].inbuf) - Len(client'[c].inbuf)
                /\ health_data'[used].bytes_received - health_data[used].bytes_received
                     = client'[c].from_remote - client[c].from_remote
C39_OneInterface == [][C39_Step]_vars

\* A stream that fell back to Eth relayed bytes in both directions and was
\* closed: WiFi holds no byte and no stream of it.
C39_Witness ==
  \E c \in Conns :
    /\ Netmix /\ client[c].pc = "CLOSED" /\ client[c].iface_name_used = "Eth"
    /\ client[c].tried = <<"WiFi", "Eth">>
    /\ health_data["Eth"].bytes_sent > 0 /\ health_data["Eth"].bytes_received > 0
    /\ health_data["WiFi"].bytes_sent = 0 /\ health_data["WiFi"].bytes_received = 0
    /\ health_data["WiFi"].successes = 0

====
